---- MODULE Spec2Model ----
(***************************************************************************)
(* DevEvent: the connection manager (lib/mongodb.ts) and the save-time     *)
(* rules of the Event and Booking documents (database/*.model.ts).         *)
(*                                                                         *)
(* Specifications:                                                         *)
(*   SpecConn     connectToDatabase() under the JavaScript job queue       *)
(*   SpecConnFair the same, every queued job eventually runs               *)
(*   SpecEvent    Event documents: create, edit, save, delete, clock       *)
(*   SpecBooking  Booking documents against events: create, edit, save     *)
(*   SpecSave     valid and invalid saves of events and bookings           *)
(*   SpecFields   one event: the slug and time derived by the save hook    *)
(*   SpecTimes    one event: every time of day, valid or not               *)
(*   SpecEmail    two bookings for one event: the emails of the tests      *)
(***************************************************************************)
EXTENDS Integers, Sequences, FiniteSets, TLC

\* ---------------------------------------------------------------- bounds
MaxCallers == 4
MaxEvents == 2
MaxBookings == 3
MaxTicks == 1      \* milliseconds the clock advances
MaxEdits == 1      \* assignments made to persisted documents
ClockStart == 35   \* Date.now() at the start

VARIABLES
    \* ---- connection manager ----
    variant,        \* which connectToDatabase the build holds: "load" | "call"
    loaded,         \* module state: "unloaded" | "loaded" | "failed"
    envUri,         \* process.env.MONGODB_URI: "none" | "bad" | "good"
    loadedUri,      \* const uri captured when the module loads ("load" variant)
    cachedConn,     \* cached.conn: 0 (null) or the instance an attempt resolved to
    cachedPromise,  \* cached.promise: 0 (null) or the attempt it stands for
    attempts,       \* mongoose.connect() calls so far: [uri, status]
    pc,             \* each caller's position in connectToDatabase()
    awaited,        \* the attempt a caller awaits (0: none)
    result,         \* the instance a caller's call returned (0: none)
    err,            \* the error a caller's call threw
    jobs,           \* the job (microtask) queue
    \* ---- documents and collections ----
    eventModel,     \* which Event schema the build holds: "stamped" | "plain"
    now,            \* Date.now()
    edits,          \* assignments made to persisted documents so far
    eventDocs,      \* Event documents in memory, by _id
    events,         \* the events collection, by _id
    bookingDocs,    \* Booking documents in memory, by _id
    bookings        \* the bookings collection, by _id

connVars == <<variant, loaded, envUri, loadedUri, cachedConn, cachedPromise,
              attempts, pc, awaited, result, err, jobs>>

storeVars == <<eventModel, now, edits, eventDocs, events, bookingDocs, bookings>>

vars == <<connVars, storeVars>>

Callers == 1..MaxCallers
Uris == {"none", "bad", "good"}
Null == 0

\* ------------------------------------------------------------ connection
\* mongoose.connect(uri): the attempt a connection string leads to. A "good"
\* string reaches the server; a "bad" one (unreachable host) is rejected.
AttemptOutcome(uri) == IF uri = "good" THEN "resolved" ELSE "rejected"

\* The instance attempt a resolves to.
ConnOf(a) == a

Pending == {a \in DOMAIN attempts : attempts[a].status = "pending"}
Settled(a) == attempts[a].status # "pending"

\* if (!MONGODB_URI) throw ... : at call time in the "call" variant only.
ThrowsConfigError == variant = "call" /\ envUri = "none"

\* The connection string handed to mongoose.connect().
ConnectUri == IF variant = "call" THEN envUri ELSE loadedUri

\* if (!cached.promise): start an attempt only when none is marked pending.
ShouldStartAttempt_Always == TRUE
ShouldStartAttempt == cachedPromise = Null

\* Module load. The "load" variant reads the connection string here and
\* throws when it is missing; the "call" variant only sets up the cache.
LoadModule ==
    /\ loaded = "unloaded"
    /\ IF variant = "load" /\ envUri = "none"
         THEN loaded' = "failed" /\ UNCHANGED loadedUri
         ELSE /\ loaded' = "loaded"
              /\ loadedUri' = IF variant = "load" THEN envUri ELSE "none"
    /\ UNCHANGED <<variant, envUri, cachedConn, cachedPromise, attempts, pc,
                   awaited, result, err, jobs>>

\* The environment changes the configured connection string.
SetEnv(u) ==
    /\ u # envUri
    /\ envUri' = u
    /\ UNCHANGED <<variant, loaded, loadedUri, cachedConn, cachedPromise,
                   attempts, pc, awaited, result, err, jobs>>

\* connectToDatabase() up to its await: the synchronous part of the call.
\* q is the job queue the call leaves behind when it queues nothing.
SyncPart(c, q) ==
    IF ThrowsConfigError
      THEN /\ pc' = [pc EXCEPT ![c] = "threw"]
           /\ err' = [err EXCEPT ![c] = "config"]
           /\ jobs' = q
           /\ UNCHANGED <<cachedConn, cachedPromise, attempts, awaited, result>>
    ELSE IF cachedConn # Null
      THEN /\ pc' = [pc EXCEPT ![c] = "returned"]
           /\ result' = [result EXCEPT ![c] = cachedConn]
           /\ jobs' = q
           /\ UNCHANGED <<cachedConn, cachedPromise, attempts, awaited, err>>
    ELSE /\ IF ShouldStartAttempt
              THEN /\ attempts' = Append(attempts,
                                   [uri |-> ConnectUri, status |-> "pending"])
                   /\ cachedPromise' = Len(attempts) + 1
              ELSE UNCHANGED <<attempts, cachedPromise>>
         \* await cached.promise: a settled promise queues the continuation now
         /\ awaited' = [awaited EXCEPT ![c] = cachedPromise']
         /\ pc' = [pc EXCEPT ![c] = "awaiting"]
         /\ jobs' = IF attempts'[cachedPromise'].status # "pending"
                      THEN Append(q, [kind |-> "resume", who |-> c])
                      ELSE q
         /\ UNCHANGED <<cachedConn, result, err>>

\* A caller invokes connectToDatabase() from a fresh task (empty job queue).
Request(c) ==
    /\ loaded = "loaded"
    /\ pc[c] = "idle"
    /\ jobs = <<>>
    /\ SyncPart(c, jobs)
    /\ UNCHANGED <<variant, loaded, envUri, loadedUri>>

\* A caller's call is queued as a job (a promise reaction that will call
\* connectToDatabase()).
Defer(c) ==
    /\ loaded = "loaded"
    /\ pc[c] = "idle"
    /\ pc' = [pc EXCEPT ![c] = "scheduled"]
    /\ jobs' = Append(jobs, [kind |-> "call", who |-> c])
    /\ UNCHANGED <<variant, loaded, envUri, loadedUri, cachedConn,
                   cachedPromise, attempts, awaited, result, err>>

\* The attempt settles; the continuations of the callers awaiting it are
\* queued in the order they awaited.
Waiters(a) == {c \in Callers : pc[c] = "awaiting" /\ awaited[c] = a}

RECURSIVE ResumeJobs(_)
ResumeJobs(S) ==
    IF S = {} THEN <<>>
    ELSE LET c == CHOOSE x \in S : \A y \in S : x <= y
         IN <<[kind |-> "resume", who |-> c]>> \o ResumeJobs(S \ {c})

Settle(a) ==
    /\ a \in Pending
    /\ attempts' = [attempts EXCEPT ![a].status = AttemptOutcome(attempts[a].uri)]
    /\ jobs' = jobs \o ResumeJobs(Waiters(a))
    /\ UNCHANGED <<variant, loaded, envUri, loadedUri, cachedConn,
                   cachedPromise, pc, awaited, result, err>>

\* A continuation that swallows the rejection and returns cached.conn.
Continuation_Swallow(c, q) ==
    /\ cachedConn' = IF attempts[awaited[c]].status = "resolved"
                       THEN ConnOf(awaited[c]) ELSE cachedConn
    /\ result' = [result EXCEPT ![c] = cachedConn']
    /\ pc' = [pc EXCEPT ![c] = "returned"]
    /\ jobs' = q
    /\ UNCHANGED <<cachedPromise, attempts, awaited, err>>

\* try { cached.conn = await cached.promise } catch { cached.promise = null;
\* throw err }  return cached.conn
Continuation(c, q) ==
    LET a == awaited[c] IN
    IF attempts[a].status = "resolved"
      THEN /\ cachedConn' = ConnOf(a)
           /\ result' = [result EXCEPT ![c] = cachedConn']
           /\ pc' = [pc EXCEPT ![c] = "returned"]
           /\ jobs' = q
           /\ UNCHANGED <<cachedPromise, attempts, awaited, err>>
      ELSE /\ cachedPromise' = Null
           /\ err' = [err EXCEPT ![c] = "connect"]
           /\ pc' = [pc EXCEPT ![c] = "threw"]
           /\ jobs' = q
           /\ UNCHANGED <<cachedConn, attempts, awaited, result>>

\* The event loop runs the job at the head of the queue to completion.
RunJob ==
    /\ jobs # <<>>
    /\ LET j == Head(jobs) IN
         IF j.kind = "call"
           THEN SyncPart(j.who, Tail(jobs))
           ELSE Continuation(j.who, Tail(jobs))
    /\ UNCHANGED <<variant, loaded, envUri, loadedUri>>

InitConn ==
    /\ variant \in {"load", "call"}
    /\ loaded = "unloaded"
    /\ envUri \in Uris
    /\ loadedUri = "none"
    /\ cachedConn = Null
    /\ cachedPromise = Null
    /\ attempts = <<>>
    /\ pc = [c \in Callers |-> "idle"]
    /\ awaited = [c \in Callers |-> 0]
    /\ result = [c \in Callers |-> 0]
    /\ err = [c \in Callers |-> "none"]
    /\ jobs = <<>>

\* --------------------------------------------------------------- strings
\* A string is a sequence of one-character strings.
LowerSeq == <<"a","b","c","d","e","f","g","h","i","j","k","l","m",
              "n","o","p","q","r","s","t","u","v","w","x","y","z">>
UpperSeq == <<"A","B","C","D","E","F","G","H","I","J","K","L","M",
              "N","O","P","Q","R","S","T","U","V","W","X","Y","Z">>
DigitSeq == <<"0","1","2","3","4","5","6","7","8","9">>
Base36Digits == DigitSeq \o LowerSeq

\* undefined: the value of a path that was never set.
Undef == <<"undefined">>

IsSpace(ch) == ch = " "
IsDigit(ch) == \E i \in DOMAIN DigitSeq : DigitSeq[i] = ch
DigitVal(ch) == (CHOOSE i \in DOMAIN DigitSeq : DigitSeq[i] = ch) - 1
\* [a-z0-9]
IsSlugChar(ch) == \E i \in DOMAIN Base36Digits : Base36Digits[i] = ch

ToLowerChar(ch) ==
    IF \E i \in DOMAIN UpperSeq : UpperSeq[i] = ch
      THEN LowerSeq[CHOOSE i \in DOMAIN UpperSeq : UpperSeq[i] = ch]
      ELSE ch

RECURSIVE ToLowerCase(_)
ToLowerCase(s) ==
    IF s = <<>> THEN <<>> ELSE <<ToLowerChar(Head(s))>> \o ToLowerCase(Tail(s))

RECURSIVE StripLeft(_, _)
StripLeft(s, C) ==
    IF s # <<>> /\ Head(s) \in C THEN StripLeft(Tail(s), C) ELSE s

RECURSIVE StripRight(_, _)
StripRight(s, C) ==
    IF s # <<>> /\ s[Len(s)] \in C
      THEN StripRight(SubSeq(s, 1, Len(s) - 1), C) ELSE s

\* String.prototype.trim()
Trim(s) == StripRight(StripLeft(s, {" "}), {" "})

\* .replace(/[^a-z0-9]+/g, '-')
RECURSIVE ReplaceNonSlugRuns(_)
ReplaceNonSlugRuns(s) ==
    IF s = <<>> THEN <<>>
    ELSE LET r  == ReplaceNonSlugRuns(SubSeq(s, 1, Len(s) - 1))
             ch == s[Len(s)]
             inRun == Len(s) > 1 /\ ~IsSlugChar(s[Len(s) - 1])
         IN IF IsSlugChar(ch) THEN Append(r, ch)
            ELSE IF inRun THEN r
            ELSE Append(r, "-")

\* .replace(/^-+|-+$/g, '')
StripHyphens(s) == StripRight(StripLeft(s, {"-"}), {"-"})

slugifyTitle(title) ==
    StripHyphens(ReplaceNonSlugRuns(Trim(ToLowerCase(title))))

\* Number.prototype.toString(36)
RECURSIVE Base36(_)
Base36(n) ==
    IF n < Len(Base36Digits) THEN <<Base36Digits[n + 1]>>
    ELSE Append(Base36(n \div Len(Base36Digits)),
                Base36Digits[(n % Len(Base36Digits)) + 1])

\* n.toString().padStart(2, '0') for 0 <= n <= 99
Pad2(n) == <<DigitSeq[(n \div 10) + 1], DigitSeq[(n % 10) + 1]>>

\* ----------------------------------------------------------------- Event
EventIds == 1..MaxEvents

\* The slug the pre-save hook assigns.
GenSlug(title, t) ==
    IF eventModel = "stamped"
      THEN slugifyTitle(title) \o <<"-">> \o Base36(t)
      ELSE slugifyTitle(title)

\* this.time.match(/^(\d{1,2}):(\d{2})$/)
TimeMatches_Any(s) == TRUE
TimeMatches(s) ==
    /\ Len(s) \in {4, 5}
    /\ s[Len(s) - 2] = ":"
    /\ \A i \in 1..Len(s) : i # Len(s) - 2 => IsDigit(s[i])

RECURSIVE ToNumber(_)
ToNumber(s) ==
    IF s = <<>> THEN 0
    ELSE 10 * ToNumber(SubSeq(s, 1, Len(s) - 1)) + DigitVal(s[Len(s)])

TimeHours(s) == ToNumber(SubSeq(s, 1, Len(s) - 3))
TimeMinutes(s) == ToNumber(SubSeq(s, Len(s) - 1, Len(s)))
TimeInRange_Any(s) == TRUE
TimeInRange(s) == ~(TimeHours(s) > 23 \/ TimeMinutes(s) > 59)
NormalizeTime_Keep(s) == s
NormalizeTime(s) == Pad2(TimeHours(s)) \o <<":">> \o Pad2(TimeMinutes(s))

\* Schema setters, applied when a path is set.
MaxTitleLen == 100
SetTitle(v) == IF v = Undef THEN Undef ELSE Trim(v)
SetTime(v) ==
    IF v = Undef THEN Undef
    ELSE IF eventModel = "stamped" THEN Trim(v) ELSE v
SetEventSlug(v) ==
    IF v = Undef THEN Undef
    ELSE IF eventModel = "plain" THEN Trim(ToLowerCase(v)) ELSE v

\* required: true on a String path rejects undefined and "".
Missing(v) == v = Undef \/ v = <<>>

\* The validator of agenda and of tags: a non-empty array; in the schema of
\* database/event.model.ts every item must also be non-blank.
ListValid(v) ==
    /\ Len(v) > 0
    /\ eventModel = "stamped" => \A i \in 1..Len(v) : Trim(v[i]) # <<>>

\* Is the slug path required by the schema?
SlugRequired == eventModel = "stamped"

\* Mongoose validates the document before any pre('save') hook runs.
EventValidationError(d) ==
    IF Missing(d.title) THEN "TitleRequired"
    ELSE IF eventModel = "plain" /\ Len(d.title) > MaxTitleLen THEN "TitleTooLong"
    ELSE IF SlugRequired /\ Missing(d.slug) THEN "SlugRequired"
    ELSE IF Missing(d.description) THEN "DescriptionRequired"
    ELSE IF Missing(d.time) THEN "TimeRequired"
    ELSE IF ~ListValid(d.agenda) THEN "InvalidAgenda"
    ELSE IF ~ListValid(d.tags) THEN "InvalidTags"
    ELSE "none"

\* timestamps: true. The hook Mongoose installs for it runs after validation
\* and before the schema's own pre('save') hook: a new document gets
\* createdAt and updatedAt, a modified one a new updatedAt.
NoDate == 0
SetTimestamps_Keep(d, modified) ==
    IF d.isNew THEN [d EXCEPT !.createdAt = now, !.updatedAt = now] ELSE d
SetTimestamps(d, modified) ==
    IF d.isNew THEN [d EXCEPT !.createdAt = now, !.updatedAt = now]
    ELSE IF modified THEN [d EXCEPT !.updatedAt = now]
    ELSE d

NoEventDoc ==
    [st |-> "none", isNew |-> TRUE, title |-> Undef, slug |-> Undef,
     description |-> Undef, time |-> Undef, agenda |-> <<>>, tags |-> <<>>,
     createdAt |-> NoDate, updatedAt |-> NoDate,
     modTitle |-> FALSE, modTime |-> FALSE, modOther |-> FALSE,
     error |-> "none"]
NoEvent == [present |-> FALSE, title |-> Undef, slug |-> Undef,
            description |-> Undef, time |-> Undef, agenda |-> <<>>,
            tags |-> <<>>, createdAt |-> NoDate, updatedAt |-> NoDate]

\* The fields of validEventData that the schema's checks and hook read.
ValidEventData ==
    [title |-> <<"c">>, slug |-> Undef, description |-> <<"d">>,
     time |-> <<"1", "4", ":", "3", "0">>, agenda |-> << <<"k">> >>,
     tags |-> << <<"t">> >>]

\* new Event(data): the document in memory, setters applied.
NewEventDoc(data) ==
    [NoEventDoc EXCEPT !.st = "ready", !.title = SetTitle(data.title),
                       !.slug = SetEventSlug(data.slug),
                       !.description = SetTitle(data.description),
                       !.time = SetTime(data.time),
                       !.agenda = data.agenda, !.tags = data.tags]

EventHook_NewOnly(d) ==
    LET d1 == IF d.isNew
                THEN [d EXCEPT !.slug = SetEventSlug(GenSlug(d.title, now))]
                ELSE d
    IN IF d.isNew \/ d.modTime
         THEN IF ~TimeMatches(d1.time)
                THEN [d1 EXCEPT !.error = "InvalidTimeFormat"]
              ELSE IF ~TimeInRange(d1.time)
                THEN [d1 EXCEPT !.error = "InvalidTimeValue"]
              ELSE [d1 EXCEPT !.time = NormalizeTime(d1.time), !.error = "none"]
         ELSE [d1 EXCEPT !.error = "none"]

EventHook_Always(d) ==
    LET d1 == [d EXCEPT !.slug = SetEventSlug(GenSlug(d.title, now))]
    IN IF ~TimeMatches(d1.time)
         THEN [d1 EXCEPT !.error = "InvalidTimeFormat"]
       ELSE IF ~TimeInRange(d1.time)
         THEN [d1 EXCEPT !.error = "InvalidTimeValue"]
       ELSE [d1 EXCEPT !.time = NormalizeTime(d1.time), !.error = "none"]

\* The pre('save') hook: the document it leaves and the error it throws.
EventHook(d) ==
    LET d1 == IF d.isNew \/ d.modTitle
                THEN [d EXCEPT !.slug = SetEventSlug(GenSlug(d.title, now))]
                ELSE d
    IN IF d.isNew \/ d.modTime
         THEN IF ~TimeMatches(d1.time)
                THEN [d1 EXCEPT !.error = "InvalidTimeFormat"]
              ELSE IF ~TimeInRange(d1.time)
                THEN [d1 EXCEPT !.error = "InvalidTimeValue"]
              ELSE [d1 EXCEPT !.time = NormalizeTime(d1.time), !.error = "none"]
         ELSE [d1 EXCEPT !.error = "none"]

EventBeforeWrite_WriteAnyway(d, onError) ==
    LET v == EventValidationError(d)
        h == EventHook(d)
    IN IF v # "none" THEN [d EXCEPT !.st = "saving", !.error = v]
       ELSE [h EXCEPT !.st = "saving"]

\* save() up to the write: validation, then the pre('save') hook. The
\* document is left "saving" (the write is due) or with the error thrown.
EventBeforeWrite(d, onError) ==
    LET v == EventValidationError(d)
        h == EventHook(SetTimestamps(d, d.modTitle \/ d.modTime \/ d.modOther))
    IN IF v # "none" THEN [d EXCEPT !.st = onError, !.error = v]
       ELSE IF h.error # "none" THEN [h EXCEPT !.st = onError]
       ELSE [h EXCEPT !.st = "saving"]

\* Event.create(data) / new Event(data).save(), up to the write.
EventCreateData(e, data) ==
    /\ eventDocs[e].st = "none"
    /\ e > 1 => eventDocs[e - 1].st # "none"
    /\ eventDocs' = [eventDocs EXCEPT ![e] =
           EventBeforeWrite(NewEventDoc(data), "failed")]
    /\ UNCHANGED <<eventModel, now, edits, events, bookingDocs, bookings>>

\* const event = new Event(data): constructed, save() not yet called.
EventNew(e, data) ==
    /\ eventDocs[e].st = "none"
    /\ e > 1 => eventDocs[e - 1].st # "none"
    /\ eventDocs' = [eventDocs EXCEPT ![e] = NewEventDoc(data)]
    /\ UNCHANGED <<eventModel, now, edits, events, bookingDocs, bookings>>

\* new Event({ ...validEventData, title, time, slug }).save()
EventCreate(e, title, time, slug) ==
    EventCreateData(e, [ValidEventData EXCEPT !.title = title, !.time = time,
                                              !.slug = slug])

\* event.title = v on a persisted document in memory
EditEventTitle(e, v) ==
    /\ eventDocs[e].st = "ready"
    /\ edits < MaxEdits
    /\ SetTitle(v) # eventDocs[e].title
    /\ eventDocs' = [eventDocs EXCEPT ![e].title = SetTitle(v),
                                      ![e].modTitle = TRUE,
                                      ![e].error = "none"]
    /\ edits' = edits + 1
    /\ UNCHANGED <<eventModel, now, events, bookingDocs, bookings>>

\* event.time = v on a persisted document in memory
EditEventTime(e, v) ==
    /\ eventDocs[e].st = "ready"
    /\ edits < MaxEdits
    /\ SetTime(v) # eventDocs[e].time
    /\ eventDocs' = [eventDocs EXCEPT ![e].time = SetTime(v),
                                      ![e].modTime = TRUE,
                                      ![e].error = "none"]
    /\ edits' = edits + 1
    /\ UNCHANGED <<eventModel, now, events, bookingDocs, bookings>>

\* event.description = v on a persisted document in memory
EditEventDescription(e, v) ==
    /\ eventDocs[e].st = "ready"
    /\ edits < MaxEdits
    /\ SetTitle(v) # eventDocs[e].description
    /\ eventDocs' = [eventDocs EXCEPT ![e].description = SetTitle(v),
                                      ![e].modOther = TRUE,
                                      ![e].error = "none"]
    /\ edits' = edits + 1
    /\ UNCHANGED <<eventModel, now, events, bookingDocs, bookings>>

\* event.agenda = v on a persisted document in memory
EditEventAgenda(e, v) ==
    /\ eventDocs[e].st = "ready"
    /\ edits < MaxEdits
    /\ v # eventDocs[e].agenda
    /\ eventDocs' = [eventDocs EXCEPT ![e].agenda = v, ![e].modOther = TRUE,
                                      ![e].error = "none"]
    /\ edits' = edits + 1
    /\ UNCHANGED <<eventModel, now, events, bookingDocs, bookings>>

\* event.save() on a persisted document, up to the write.
EventPreSave(e) ==
    /\ eventDocs[e].st = "ready"
    /\ eventDocs' = [eventDocs EXCEPT ![e] =
           EventBeforeWrite(eventDocs[e], "ready")]
    /\ UNCHANGED <<eventModel, now, edits, events, bookingDocs, bookings>>

\* The unique index on Event.slug.
EventSlugTaken_Never(e, slug) == FALSE
EventSlugTaken(e, slug) ==
    \E f \in EventIds : f # e /\ events[f].present /\ events[f].slug = slug

\* event.save(), the write: insertOne (new) or updateOne (persisted).
EventWriteFailure(e) ==
    LET d == eventDocs[e] IN
    IF ~d.isNew /\ ~events[e].present THEN "DocumentNotFound"
    ELSE IF EventSlugTaken(e, d.slug) THEN "DuplicateKey"
    ELSE "none"

EventWrite(e) ==
    /\ eventDocs[e].st = "saving"
    /\ LET d == eventDocs[e]
           failure == EventWriteFailure(e)
       IN IF failure # "none"
            THEN /\ eventDocs' = [eventDocs EXCEPT
                        ![e].st = IF d.isNew THEN "failed" ELSE "ready",
                        ![e].error = failure]
                 /\ UNCHANGED events
            ELSE /\ events' = [events EXCEPT ![e] =
                        [present |-> TRUE, title |-> d.title, slug |-> d.slug,
                         description |-> d.description, time |-> d.time,
                         agenda |-> d.agenda, tags |-> d.tags,
                         createdAt |-> d.createdAt, updatedAt |-> d.updatedAt]]
                 /\ eventDocs' = [eventDocs EXCEPT ![e] =
                        [d EXCEPT !.st = "ready", !.isNew = FALSE,
                                  !.modTitle = FALSE, !.modTime = FALSE,
                                  !.modOther = FALSE, !.error = "ok"]]
    /\ UNCHANGED <<eventModel, now, edits, bookingDocs, bookings>>

DeleteEvent_Cascade(e) ==
    /\ events[e].present
    /\ events' = [events EXCEPT ![e] = NoEvent]
    /\ bookings' = [b \in DOMAIN bookings |->
                        IF bookings[b].eventId = e
                          THEN [bookings[b] EXCEPT !.present = FALSE]
                          ELSE bookings[b]]
    /\ UNCHANGED <<eventModel, now, edits, eventDocs, bookingDocs>>

\* Event.findByIdAndDelete(e)
DeleteEvent(e) ==
    /\ events[e].present
    /\ events' = [events EXCEPT ![e] = NoEvent]
    /\ UNCHANGED <<eventModel, now, edits, eventDocs, bookingDocs, bookings>>

\* The clock advances by a millisecond.
Tick ==
    /\ now < ClockStart + MaxTicks
    /\ now' = now + 1
    /\ UNCHANGED <<eventModel, edits, eventDocs, events, bookingDocs, bookings>>

\* --------------------------------------------------------------- Booking
BookingIds == 1..MaxBookings
NoEventId == 0

\* trim: true, lowercase: true on Booking.email and Booking.slug
NormalizeEmail_Keep(v) == v
NormalizeEmail(v) == IF v = Undef THEN Undef ELSE Trim(ToLowerCase(v))
SetBookingSlug(v) == IF v = Undef THEN Undef ELSE Trim(ToLowerCase(v))

\* [^\s@]
IsEmailChar(ch) == ~IsSpace(ch) /\ ch # "@"
AllEmailChars(s) == \A i \in 1..Len(s) : IsEmailChar(s[i])

EmailMatches_Any(s) == TRUE
\* emailRegex = /^[^\s@]+@[^\s@]+\.[^\s@]+$/
EmailMatches(s) ==
    \E at \in 1..Len(s) : \E dot \in 1..Len(s) :
        /\ s[at] = "@" /\ s[dot] = "."
        /\ 1 < at /\ at + 1 < dot /\ dot < Len(s)
        /\ AllEmailChars(SubSeq(s, 1, at - 1))
        /\ AllEmailChars(SubSeq(s, at + 1, dot - 1))
        /\ AllEmailChars(SubSeq(s, dot + 1, Len(s)))

\* Mongoose validates the document before any pre('save') hook runs.
BookingValidationError(d) ==
    IF d.eventId = NoEventId THEN "EventIdRequired"
    ELSE IF Missing(d.email) THEN "EmailRequired"
    ELSE IF ~EmailMatches(d.email) THEN "InvalidEmailFormat"
    ELSE "none"

NoBookingDoc ==
    [st |-> "none", isNew |-> TRUE, eventId |-> NoEventId, email |-> Undef,
     slug |-> Undef, createdAt |-> NoDate, updatedAt |-> NoDate,
     modEventId |-> FALSE, modEmail |-> FALSE, error |-> "none"]
NoBooking == [present |-> FALSE, eventId |-> NoEventId, email |-> Undef,
              slug |-> Undef, createdAt |-> NoDate, updatedAt |-> NoDate]

\* new Booking({eventId, email, slug?}): the document in memory, setters applied.
NewBookingDoc(eid, email, slug) ==
    [NoBookingDoc EXCEPT !.st = "ready", !.eventId = eid,
                         !.email = NormalizeEmail(email),
                         !.slug = SetBookingSlug(slug)]

\* createBooking({eventId, slug, email}): the page passes the event's slug.
SlugsFor(eid) ==
    {Undef} \cup (IF events[eid].present THEN {events[eid].slug} ELSE {})

\* if (!this.isNew && !this.isModified('eventId')) return;
NeedsEventLookup_Never(d) == FALSE
NeedsEventLookup_Always(d) == TRUE
NeedsEventLookup(d) == d.isNew \/ d.modEventId

\* await Event.exists({ _id: this.eventId })
EventExists(eid) == events[eid].present

\* save() up to the write: validation, then the pre('save') hook. The
\* document is left "saving" (the write is due) or with the error thrown.
BookingBeforeWrite(d, onError) ==
    LET v == BookingValidationError(d)
        t == SetTimestamps(d, d.modEventId \/ d.modEmail)
    IN
    IF v # "none" THEN [d EXCEPT !.st = onError, !.error = v]
    ELSE IF NeedsEventLookup(d) /\ ~EventExists(d.eventId)
      THEN [t EXCEPT !.st = onError, !.error = "ReferencedEventMissing"]
    ELSE [t EXCEPT !.st = "saving", !.error = "none"]

\* const booking = new Booking(data): constructed, save() not yet called.
BookingNew(b, eid, email, slug) ==
    /\ bookingDocs[b].st = "none"
    /\ b > 1 => bookingDocs[b - 1].st # "none"
    /\ bookingDocs' = [bookingDocs EXCEPT ![b] = NewBookingDoc(eid, email, slug)]
    /\ UNCHANGED <<eventModel, now, edits, eventDocs, events, bookings>>

\* Booking.create(data) / new Booking(data).save(), up to the write.
BookingCreate(b, eid, email, slug) ==
    /\ bookingDocs[b].st = "none"
    /\ b > 1 => bookingDocs[b - 1].st # "none"
    /\ bookingDocs' = [bookingDocs EXCEPT ![b] =
           BookingBeforeWrite(NewBookingDoc(eid, email, slug), "failed")]
    /\ UNCHANGED <<eventModel, now, edits, eventDocs, events, bookings>>

\* booking.email = v on a persisted document in memory
EditBookingEmail(b, v) ==
    /\ bookingDocs[b].st = "ready"
    /\ edits < MaxEdits
    /\ NormalizeEmail(v) # bookingDocs[b].email
    /\ bookingDocs' = [bookingDocs EXCEPT ![b].email = NormalizeEmail(v),
                                          ![b].modEmail = TRUE,
                                          ![b].error = "none"]
    /\ edits' = edits + 1
    /\ UNCHANGED <<eventModel, now, eventDocs, events, bookings>>

\* booking.eventId = eid on a persisted document in memory
EditBookingEvent(b, eid) ==
    /\ bookingDocs[b].st = "ready"
    /\ edits < MaxEdits
    /\ eid # bookingDocs[b].eventId
    /\ bookingDocs' = [bookingDocs EXCEPT ![b].eventId = eid,
                                          ![b].modEventId = TRUE,
                                          ![b].error = "none"]
    /\ edits' = edits + 1
    /\ UNCHANGED <<eventModel, now, eventDocs, events, bookings>>

\* booking.save() on a persisted document, up to the write.
BookingPreSave(b) ==
    /\ bookingDocs[b].st = "ready"
    /\ bookingDocs' = [bookingDocs EXCEPT ![b] =
           BookingBeforeWrite(bookingDocs[b], "ready")]
    /\ UNCHANGED <<eventModel, now, edits, eventDocs, events, bookings>>

\* BookingSchema.index({ eventId: 1, email: 1 }, { unique: true })
PairTaken_Never(b, eid, email) == FALSE
PairTaken(b, eid, email) ==
    \E c \in BookingIds : c # b /\ bookings[c].present
                          /\ bookings[c].eventId = eid
                          /\ bookings[c].email = email

\* slug: { unique: true }: a unique index; a document without the path is
\* indexed under null, so two documents without a slug collide.
BookingSlugTaken(b, slug) ==
    \E c \in BookingIds : c # b /\ bookings[c].present
                          /\ bookings[c].slug = slug

\* booking.save(), the write: insertOne (new) or updateOne (persisted).
BookingWriteFailure(b) ==
    LET d == bookingDocs[b] IN
    IF ~d.isNew /\ ~bookings[b].present THEN "DocumentNotFound"
    ELSE IF PairTaken(b, d.eventId, d.email) THEN "DuplicateKey"
    ELSE IF BookingSlugTaken(b, d.slug) THEN "DuplicateKey"
    ELSE "none"

BookingWrite(b) ==
    /\ bookingDocs[b].st = "saving"
    /\ LET d == bookingDocs[b]
           failure == BookingWriteFailure(b)
       IN IF failure # "none"
            THEN /\ bookingDocs' = [bookingDocs EXCEPT
                        ![b].st = IF d.isNew THEN "failed" ELSE "ready",
                        ![b].error = failure]
                 /\ UNCHANGED bookings
            ELSE /\ bookings' = [bookings EXCEPT ![b] =
                        [present |-> TRUE, eventId |-> d.eventId,
                         email |-> d.email, slug |-> d.slug,
                         createdAt |-> d.createdAt, updatedAt |-> d.updatedAt]]
                 /\ bookingDocs' = [bookingDocs EXCEPT ![b] =
                        [d EXCEPT !.st = "ready", !.isNew = FALSE,
                                  !.modEventId = FALSE, !.modEmail = FALSE,
                                  !.error = "ok"]]
    /\ UNCHANGED <<eventModel, now, edits, eventDocs, events>>

\* ---------------------------------------------------------- specifications
InitStore ==
    /\ now = ClockStart
    /\ edits = 0
    /\ eventDocs = [e \in EventIds |-> NoEventDoc]
    /\ events = [e \in EventIds |-> NoEvent]
    /\ bookingDocs = [b \in BookingIds |-> NoBookingDoc]
    /\ bookings = [b \in BookingIds |-> NoBooking]

\* The connection manager at rest, for the specifications of the documents.
ConnIdle ==
    /\ InitConn
    /\ variant = "call"
    /\ envUri = "good"

\* Inputs of the Event specification.
Titles == { <<"A", "b">>, <<"c">> }
Times == { <<"9", ":", "0", "5">>, <<"2", "4", ":", "0", "0">> }
SlugInputs == { Undef, <<"x">> }

NextEvent ==
    \/ \E e \in EventIds, t \in Titles, h \in Times, s \in SlugInputs :
           EventCreate(e, t, h, s) /\ UNCHANGED connVars
    \/ \E e \in EventIds, t \in Titles : EditEventTitle(e, t) /\ UNCHANGED connVars
    \/ \E e \in EventIds, h \in Times : EditEventTime(e, h) /\ UNCHANGED connVars
    \/ \E e \in EventIds : EventPreSave(e) /\ UNCHANGED connVars
    \/ \E e \in EventIds : EventWrite(e) /\ UNCHANGED connVars
    \/ \E e \in EventIds : DeleteEvent(e) /\ UNCHANGED connVars
    \/ Tick /\ UNCHANGED connVars

\* Either variant of the Event schema may be the one deployed.
InitEvent == ConnIdle /\ InitStore /\ eventModel \in {"stamped", "plain"}

SpecEvent == InitEvent /\ [][NextEvent]_vars

\* Inputs of the Booking specification: event e is created from a valid
\* input of its own; a persisted booking is saved again after an assignment.
TitleOf(e) == <<"e", DigitSeq[e + 1]>>
BookingTimes == { <<"9", ":", "0", "5">> }
Emails == { <<"a", "@", "b", ".", "c">>, <<" ", "A", "@", "b", ".", "c">>,
            <<"x", "@", "b", ".", "c">>, <<"a", "b">> }

NextBooking ==
    \/ \E e \in EventIds, h \in BookingTimes :
           EventCreate(e, TitleOf(e), h, Undef) /\ UNCHANGED connVars
    \/ \E e \in EventIds : EventWrite(e) /\ UNCHANGED connVars
    \/ \E e \in EventIds : DeleteEvent(e) /\ UNCHANGED connVars
    \/ \E b \in BookingIds, e \in EventIds, m \in Emails :
           \E s \in SlugsFor(e) : BookingCreate(b, e, m, s) /\ UNCHANGED connVars
    \/ \E b \in BookingIds, m \in Emails : EditBookingEmail(b, m) /\ UNCHANGED connVars
    \/ \E b \in BookingIds, e \in EventIds : EditBookingEvent(b, e) /\ UNCHANGED connVars
    \/ \E b \in BookingIds :
           /\ bookingDocs[b].modEmail \/ bookingDocs[b].modEventId
           /\ BookingPreSave(b) /\ UNCHANGED connVars
    \/ \E b \in BookingIds : BookingWrite(b) /\ UNCHANGED connVars

InitBooking == ConnIdle /\ InitStore /\ eventModel = "plain"

SpecBooking == InitBooking /\ [][NextBooking]_vars

\* Inputs of the specification of failing saves: validEventData with a
\* caller-supplied slug, and the same with one field made invalid.
SuppliedSlug == [ValidEventData EXCEPT !.slug = <<"x">>]
SaveEventData ==
    { ValidEventData, SuppliedSlug,
      [SuppliedSlug EXCEPT !.title = Undef],
      [SuppliedSlug EXCEPT !.time = <<"1", "4", "3", "0">>],
      [SuppliedSlug EXCEPT !.time = <<"2", "4", ":", "0", "0">>],
      [SuppliedSlug EXCEPT !.agenda = <<>>],
      [SuppliedSlug EXCEPT !.tags = << <<" ">> >>] }
SaveEmails == { <<"a", "@", "b", ".", "c">>, <<"a", "b">> }

NextSave ==
    \/ \E e \in EventIds, data \in SaveEventData :
           EventCreateData(e, data) /\ UNCHANGED connVars
    \/ \E e \in EventIds : EditEventTime(e, <<"2", "4", ":", "0", "0">>)
                              /\ UNCHANGED connVars
    \/ \E e \in EventIds : EditEventAgenda(e, <<>>) /\ UNCHANGED connVars
    \/ \E e \in EventIds : EventPreSave(e) /\ UNCHANGED connVars
    \/ \E e \in EventIds : EventWrite(e) /\ UNCHANGED connVars
    \/ \E b \in BookingIds, e \in EventIds, m \in SaveEmails :
           \E s \in SlugsFor(e) : BookingCreate(b, e, m, s) /\ UNCHANGED connVars
    \/ \E b \in BookingIds : EditBookingEmail(b, <<"a", "b">>) /\ UNCHANGED connVars
    \/ \E b \in BookingIds, e \in EventIds : EditBookingEvent(b, e) /\ UNCHANGED connVars
    \/ \E b \in BookingIds : BookingPreSave(b) /\ UNCHANGED connVars
    \/ \E b \in BookingIds : BookingWrite(b) /\ UNCHANGED connVars

InitSave == ConnIdle /\ InitStore /\ eventModel \in {"stamped", "plain"}

\* Saves and creations of events and bookings, valid and invalid.
SpecSave == InitSave /\ [][NextSave]_vars

\* Inputs of the specifications of the derived fields: the titles of the
\* slug tests, and every string made of one or two digits, a colon and two
\* digits with an hour below MaxHour, next to the malformed times of the
\* tests.
MaxHour == 30
FieldTitles ==
    { <<"A", "b">>, <<"-", "E", "-">>, <<"E", "@", "2", " ", "&">>,
      <<"@", " ", "!">> }
Digits == {DigitSeq[i] : i \in DOMAIN DigitSeq}
HourStrings ==
    { <<a>> : a \in Digits } \cup
    { Pad2(n) : n \in 0..(MaxHour - 1) }
MinuteStrings == { <<a, b>> : a \in Digits, b \in Digits }
ClockTimes == { h \o <<":">> \o n : h \in HourStrings, n \in MinuteStrings }
MalformedTimes ==
    { <<"1", "4", "3", "0">>, <<"1", "4", ":", "3", "0", ":", "0", "0">>,
      <<"1", "4", ":", "5">>, <<"a", "b", ":", "c", "d">>, <<>>,
      <<" ", "9", ":", "0", "5">> }
EditedTimes ==
    { <<"9", ":", "0", "5">>, <<"0", ":", "0", "0">>, <<"2", "4", ":", "0", "0">>,
      <<"1", "4", ":", "5">> }

\* One event: constructed from validEventData with another title or another
\* time, saved, then edited and saved again.
NextFields ==
    \/ /\ eventDocs[1].st = "none"
       /\ \E t \in FieldTitles, s \in SlugInputs :
              EventNew(1, [ValidEventData EXCEPT !.title = t, !.slug = s])
              /\ UNCHANGED connVars
    \/ /\ eventDocs[1].st = "none"
       /\ \E h \in EditedTimes, s \in SlugInputs :
              EventNew(1, [ValidEventData EXCEPT !.time = h, !.slug = s])
              /\ UNCHANGED connVars
    \/ \E t \in FieldTitles : EditEventTitle(1, t) /\ UNCHANGED connVars
    \/ \E h \in EditedTimes : EditEventTime(1, h) /\ UNCHANGED connVars
    \/ EditEventDescription(1, <<"u">>) /\ UNCHANGED connVars
    \/ EventPreSave(1) /\ UNCHANGED connVars
    \/ EventWrite(1) /\ UNCHANGED connVars
    \/ Tick /\ UNCHANGED connVars

InitFields == ConnIdle /\ InitStore /\ eventModel \in {"stamped", "plain"}

SpecFields == InitFields /\ [][NextFields]_vars

\* One event: constructed from validEventData with any time of the clock
\* form or a malformed one, saved, then assigned another time and saved
\* again.
NextTimes ==
    \/ /\ eventDocs[1].st = "none"
       /\ \E h \in ClockTimes \cup MalformedTimes, s \in SlugInputs :
              EventNew(1, [ValidEventData EXCEPT !.time = h, !.slug = s])
              /\ UNCHANGED connVars
    \/ \E h \in EditedTimes : EditEventTime(1, h) /\ UNCHANGED connVars
    \/ EventPreSave(1) /\ UNCHANGED connVars
    \/ EventWrite(1) /\ UNCHANGED connVars

InitTimes == ConnIdle /\ InitStore /\ eventModel \in {"stamped", "plain"}

SpecTimes == InitTimes /\ [][NextTimes]_vars

\* Inputs of the specification of booking emails: the emails of the tests,
\* shortened (user -> u, example -> e, com -> c), an email with a trailing
\* dot, and no email at all.
TestEmail == <<"u", "@", "e", ".", "c">>
EmailVariants ==
    { <<"U", "@", "E", ".", "C">>, <<" ", "u", "@", "e", ".", "c", " ">>,
      <<" ", "U", "@", "E", ".", "C", " ">> }
AcceptedEmails ==
    { TestEmail, <<"u", "@", "e", ".", "c", ".", "k">>,
      <<"u", "+", "t", "@", "e", ".", "c">> }
RejectedEmails ==
    { <<"i", ".", "c">>, <<"u", "@">>, <<"@", "e", ".", "c">>, <<"u", "@", "e">>,
      <<"u", " ", "n", "@", "e", ".", "c">>, <<"u", "@", "@", "e", ".", "c">> }
DottedEmails ==
    { <<".", "u", "@", "e", ".", "c">>, <<"u", ".", "@", "e", ".", "c">>,
      <<"u", "@", "e", ".", "c", ".">> }
AbsentEmails == { Undef, <<>>, <<" ">> }
EmailInputs ==
    EmailVariants \cup AcceptedEmails \cup RejectedEmails \cup DottedEmails
        \cup AbsentEmails

\* One event and two bookings for it: the first from any input, the second
\* from any input but the plain test email.
NextEmail ==
    \/ /\ eventDocs[1].st = "none"
       /\ EventCreate(1, TitleOf(1), ValidEventData.time, Undef)
       /\ UNCHANGED connVars
    \/ EventWrite(1) /\ UNCHANGED connVars
    \/ /\ bookingDocs[1].st = "none"
       /\ \E m \in EmailInputs, s \in SlugsFor(1) :
              BookingNew(1, 1, m, s) /\ UNCHANGED connVars
    \/ /\ bookingDocs[2].st = "none"
       /\ \E m \in EmailInputs \ {TestEmail}, s \in SlugsFor(1) :
              BookingNew(2, 1, m, s) /\ UNCHANGED connVars
    \/ \E b \in {1, 2} : BookingPreSave(b) /\ UNCHANGED connVars
    \/ \E b \in {1, 2} : BookingWrite(b) /\ UNCHANGED connVars

InitEmail == ConnIdle /\ InitStore /\ eventModel = "plain"

SpecEmail == InitEmail /\ [][NextEmail]_vars

NextConn ==
    \/ LoadModule /\ UNCHANGED storeVars
    \/ \E u \in Uris : SetEnv(u) /\ UNCHANGED storeVars
    \/ \E c \in Callers : Request(c) /\ UNCHANGED storeVars
    \/ \E c \in Callers : Defer(c) /\ UNCHANGED storeVars
    \/ \E a \in DOMAIN attempts : Settle(a) /\ UNCHANGED storeVars
    \/ RunJob /\ UNCHANGED storeVars

\* The connection manager alone: no document is created.
InitManager == InitConn /\ InitStore /\ eventModel = "plain"

SpecConn == InitManager /\ [][NextConn]_vars

\* The event loop runs every queued job: a queued continuation is not left
\* in the queue forever.
SpecConnFair ==
    InitManager /\ [][NextConn]_vars /\ WF_vars(RunJob /\ UNCHANGED storeVars)

\* ------------------------------------------------------------ claims
\* ---- connection
NoAttemptFailed == \A a \in DOMAIN attempts : attempts[a].status # "rejected"

Joined(c) == awaited[c] # 0 /\ pc[c] = "returned"

\* C1: while no attempt has failed, every call that was started with no
\* connection cached (and so awaited the attempt) returns the instance the
\* attempt resolved to, all such calls return the same instance, and that
\* instance is the one held in cached.conn.
C1_SameInstance ==
    NoAttemptFailed =>
        \A c \in Callers : Joined(c) =>
            /\ result[c] # Null
            /\ result[c] = cachedConn
            /\ \A d \in Callers : Joined(d) => result[d] = result[c]

\* C1 witness: two callers both awaited the one attempt and both returned.
C1_Witness ==
    /\ NoAttemptFailed
    /\ Len(attempts) = 1
    /\ \E c, d \in Callers : c # d /\ Joined(c) /\ Joined(d)
                             /\ awaited[c] = awaited[d]

\* C2: at every moment at most one mongoose.connect() attempt is in flight.
C2_AtMostOneInFlight == Cardinality(Pending) <= 1

\* C10: when a failing call rejects, cached.promise is null and no connection
\* is cached; and a call made after a failure, once the configuration holds
\* the corrected connection string, starts its attempt with that string (and
\* so succeeds).
C10_RetryWithCorrectedConfig ==
    [][ /\ \A c \in Callers :
             (pc[c] = "awaiting" /\ pc'[c] = "threw") =>
                 (cachedPromise' = Null /\ cachedConn' = Null)
        /\ ( /\ ~NoAttemptFailed /\ cachedPromise = Null
             /\ envUri = "good"
             /\ Len(attempts') > Len(attempts) ) =>
               AttemptOutcome(attempts'[Len(attempts')].uri) = "resolved"
      ]_vars

\* The attempt caller c awaited was rejected.
AwaitedFailed(c) ==
    awaited[c] # 0 /\ attempts[awaited[c]].status = "rejected"

\* C11: a caller whose call is over and who awaited an attempt that was
\* rejected threw the connection error and received no connection; and a
\* caller awaiting a rejected attempt is eventually rejected.
C11_AwaitersRejected ==
    /\ [](\A c \in Callers :
            (AwaitedFailed(c) /\ pc[c] \in {"returned", "threw"}) =>
                (pc[c] = "threw" /\ err[c] = "connect" /\ result[c] = Null))
    /\ \A c \in Callers :
          (pc[c] = "awaiting" /\ AwaitedFailed(c)) ~> (pc[c] = "threw")

\* C11 witness: two callers awaited the same attempt, it was rejected, and
\* both threw.
C11_Witness ==
    \E c, d \in Callers :
        /\ c # d /\ awaited[c] = awaited[d]
        /\ AwaitedFailed(c)
        /\ pc[c] = "threw" /\ pc[d] = "threw"
        /\ err[c] = "connect" /\ err[d] = "connect"

\* The step runs the synchronous part of caller c's connectToDatabase() call.
CallRuns(c) ==
    pc[c] \in {"idle", "scheduled"} /\ pc'[c] \notin {"idle", "scheduled"}

\* C12: loading the module never fails for a missing connection string; a
\* call made while no connection string is configured throws the
\* configuration error, starts no attempt and leaves the cache as it was.
C12_ReadAtCallTime ==
    [][ /\ loaded = "unloaded" => loaded' # "failed"
        /\ \A c \in Callers : (CallRuns(c) /\ envUri = "none") =>
              /\ pc'[c] = "threw" /\ err'[c] = "config"
              /\ attempts' = attempts
              /\ cachedConn' = cachedConn /\ cachedPromise' = cachedPromise
      ]_vars

\* C13: a call made while a connection is cached returns that connection,
\* starts no attempt and leaves cached.conn and cached.promise unchanged,
\* whatever connection string is configured.
C13_CachedIsNoOp ==
    [][ \A c \in Callers : (CallRuns(c) /\ cachedConn # Null) =>
          /\ pc'[c] = "returned" /\ result'[c] = cachedConn
          /\ attempts' = attempts
          /\ cachedConn' = cachedConn /\ cachedPromise' = cachedPromise
      ]_vars

\* The state of the connection cache.
CacheState ==
    IF cachedConn # Null THEN "Connected"
    ELSE IF cachedPromise # Null THEN "Connecting"
    ELSE "Unconnected"

\* C14: the cache changes state only from Unconnected to Connecting (in a
\* call, which starts the attempt), from Connecting to Connected, and from
\* Connecting to Unconnected when the attempt it marks has failed; Connected
\* is never left; an attempt begins only in a call made while Unconnected.
C14_CacheStateMachine ==
    [][ /\ CacheState' # CacheState =>
              \/ /\ CacheState = "Unconnected" /\ CacheState' = "Connecting"
                 /\ \E c \in Callers : CallRuns(c)
                 /\ Len(attempts') = Len(attempts) + 1
              \/ /\ CacheState = "Connecting" /\ CacheState' = "Connected"
                 /\ attempts[cachedPromise].status = "resolved"
              \/ /\ CacheState = "Connecting" /\ CacheState' = "Unconnected"
                 /\ attempts[cachedPromise].status = "rejected"
        /\ Len(attempts') # Len(attempts) =>
              /\ CacheState = "Unconnected"
              /\ \E c \in Callers : CallRuns(c)
      ]_vars

\* ---- bookings
SamePair(x, y) == x.eventId = y.eventId /\ x.email = y.email

\* The step is the write of booking b's pending save.
WriteLands(b) == bookingDocs[b].st = "saving" /\ bookingDocs'[b].st # "saving"

\* The step is a save of booking b up to its write: a create, or a save of
\* the persisted document.
SaveStarts(b) ==
    \/ bookingDocs[b].st = "none" /\ bookingDocs'[b].st # "none"
    \/ /\ bookingDocs[b].st = "ready"
       /\ bookingDocs'[b] # bookingDocs[b]
       /\ bookingDocs'[b].eventId = bookingDocs[b].eventId
       /\ bookingDocs'[b].email = bookingDocs[b].email
       /\ bookingDocs'[b].st = "saving" \/ bookingDocs'[b].error # "none"

\* C3: no two persisted bookings hold the same (eventId, email) pair, and the
\* email each holds is in its normalized form (trimmed, lower case); a booking
\* whose save was refused as a duplicate is not stored with the pair it asked
\* for.
C3_UniquePair ==
    /\ \A b \in BookingIds : bookings[b].present =>
          /\ bookings[b].email = NormalizeEmail(bookings[b].email)
          /\ \A c \in BookingIds :
                (c # b /\ bookings[c].present)
                    => ~SamePair(bookings[b], bookings[c])
    /\ \A b \in BookingIds : bookingDocs[b].error = "DuplicateKey" =>
          ~(bookings[b].present /\ SamePair(bookings[b], bookingDocs[b]))

\* C3 witness: the save of a booking was rejected as a duplicate while another
\* persisted booking held its pair under a different slug.
C3_Witness ==
    \E b, c \in BookingIds :
        /\ b # c
        /\ bookingDocs[b].error = "DuplicateKey"
        /\ bookings[c].present
        /\ SamePair(bookingDocs[b], bookings[c])
        /\ bookings[c].slug # bookingDocs[b].slug

\* C4: of two saves of new bookings for the same pair that are both pending
\* their write, with no persisted booking holding the pair, the first write to
\* land succeeds; and a write that lands while a persisted booking holds its
\* pair fails with a duplicate-key error and writes nothing.
C4_ExactlyOneSucceeds ==
    [][ \A b \in BookingIds : WriteLands(b) =>
          /\ ( /\ bookingDocs[b].isNew
               /\ ~PairTaken(b, bookingDocs[b].eventId, bookingDocs[b].email)
               /\ \E c \in BookingIds :
                     /\ c # b /\ bookingDocs[c].st = "saving" /\ bookingDocs[c].isNew
                     /\ SamePair(bookingDocs[b], bookingDocs[c]) )
             => bookingDocs'[b].error = "ok" /\ bookings'[b].present
          /\ PairTaken(b, bookingDocs[b].eventId, bookingDocs[b].email)
             => bookingDocs'[b].error = "DuplicateKey" /\ bookings' = bookings
      ]_vars

\* C5: a write is rejected with a duplicate-key error only if a persisted
\* booking holds the same (eventId, email) pair.
C5_RejectedOnlyForSamePair ==
    [][ \A b \in BookingIds :
          (WriteLands(b) /\ bookingDocs'[b].error = "DuplicateKey") =>
              PairTaken(b, bookingDocs[b].eventId, bookingDocs[b].email)
      ]_vars

\* The step is a save of booking b that is due the event lookup: the booking
\* is new or its eventId was changed.
LookupDue(b) ==
    SaveStarts(b) /\ (bookingDocs'[b].isNew \/ bookingDocs[b].modEventId)

\* C6 as stated: a save of a new booking, or of a booking whose eventId was
\* changed, that finds no event under the id fails with "Referenced event does
\* not exist." and writes nothing; if the event exists the save is not refused
\* for the reference.
C6_MissingEventRejected ==
    [][ \A b \in BookingIds : LookupDue(b) =>
          IF EventExists(bookingDocs'[b].eventId)
            THEN bookingDocs'[b].error # "ReferencedEventMissing"
            ELSE /\ bookingDocs'[b].st # "saving"
                 /\ bookingDocs'[b].error = "ReferencedEventMissing"
                 /\ bookings' = bookings
      ]_vars

\* C6 amended: the same, for a booking that passes schema validation (the
\* validation runs before the hook that looks the event up); a booking that
\* does not is refused with the validation error and nothing is written.
C6_ValidMissingEventRejected ==
    [][ \A b \in BookingIds : LookupDue(b) =>
          IF BookingValidationError(bookingDocs'[b]) # "none"
            THEN /\ bookingDocs'[b].st # "saving"
                 /\ bookingDocs'[b].error = BookingValidationError(bookingDocs'[b])
                 /\ bookings' = bookings
          ELSE IF EventExists(bookingDocs'[b].eventId)
            THEN bookingDocs'[b].st = "saving"
            ELSE /\ bookingDocs'[b].st # "saving"
                 /\ bookingDocs'[b].error = "ReferencedEventMissing"
                 /\ bookings' = bookings
      ]_vars

\* C6 witness: a new booking and a persisted booking whose eventId was
\* changed were both refused for the missing event.
C6_Witness ==
    \E b, c \in BookingIds :
        /\ bookingDocs[b].isNew /\ bookingDocs[b].st = "failed"
        /\ bookingDocs[b].error = "ReferencedEventMissing"
        /\ ~bookingDocs[c].isNew /\ bookingDocs[c].modEventId
        /\ bookingDocs[c].error = "ReferencedEventMissing"
        /\ bookings[c].eventId # bookingDocs[c].eventId

\* ---- events
\* C7: no two persisted events share a slug; an event whose save was refused
\* as a duplicate is not stored under the slug it asked for.
C7_UniqueSlug ==
    /\ \A e, f \in EventIds :
          (e # f /\ events[e].present /\ events[f].present) =>
              events[e].slug # events[f].slug
    /\ \A e \in EventIds : eventDocs[e].error = "DuplicateKey" =>
          ~(events[e].present /\ events[e].slug = eventDocs[e].slug)

\* C7 witness: the save of an event was rejected as a duplicate while another
\* persisted event held its slug.
C7_Witness ==
    \E e, f \in EventIds :
        /\ e # f
        /\ eventDocs[e].error = "DuplicateKey"
        /\ events[f].present
        /\ events[f].slug = eventDocs[e].slug

\* The pre-save hook has derived the slug of event e from its current title.
SlugDerived(e) ==
    \/ eventDocs[e].st = "saving"
    \/ eventDocs[e].error \in {"ok", "DuplicateKey"}

\* C8: in the time-stamped variant, two events with the same title are given
\* different slugs.
C8_SameTitleDistinctSlugs ==
    eventModel = "stamped" =>
        \A e, f \in EventIds :
            ( /\ e # f /\ SlugDerived(e) /\ SlugDerived(f)
              /\ eventDocs[e].title = eventDocs[f].title )
            => eventDocs[e].slug # eventDocs[f].slug

\* C9: the save of a new event with a title and a well-formed time in range is
\* not refused for the slug the caller did not supply.
C9_SlugDerivedBeforeRequired ==
    \A e \in EventIds :
        ( /\ eventDocs[e].isNew /\ eventDocs[e].st = "failed"
          /\ ~Missing(eventDocs[e].title)
          /\ TimeMatches(eventDocs[e].time) /\ TimeInRange(eventDocs[e].time) )
        => eventDocs[e].error # "SlugRequired"

\* ---- failing saves
SaveFailed(old, new) == new # old /\ new.error \notin {"none", "ok"}
SaveSucceeded(old, new) == old.st = "saving" /\ old.error = "none" /\ new.error = "ok"

\* C15: a save or create of an event or a booking that fails a validation
\* (a schema validator, the pre-save hook, the referenced-event lookup or a
\* unique index) leaves the persisted events and bookings exactly as they
\* were; a document that failed never reaches the write, and the store
\* changes only in the step in which a save succeeds.
C15_FailedSaveLeavesStore ==
    /\ [](/\ \A e \in EventIds : eventDocs[e].st = "saving" => eventDocs[e].error = "none"
          /\ \A b \in BookingIds : bookingDocs[b].st = "saving" => bookingDocs[b].error = "none"
          /\ \A e \in EventIds : eventDocs[e].st = "failed" => ~events[e].present
          /\ \A b \in BookingIds : bookingDocs[b].st = "failed" => ~bookings[b].present)
    /\ [][ /\ (\/ \E e \in EventIds : SaveFailed(eventDocs[e], eventDocs'[e])
               \/ \E b \in BookingIds : SaveFailed(bookingDocs[b], bookingDocs'[b]))
                  => (events' = events /\ bookings' = bookings)
           /\ events' # events =>
                  \E e \in EventIds : SaveSucceeded(eventDocs[e], eventDocs'[e])
           /\ bookings' # bookings =>
                  \E b \in BookingIds : SaveSucceeded(bookingDocs[b], bookingDocs'[b])
         ]_vars

\* Next to a persisted event and a persisted booking, a creation and a save
\* of a persisted document have failed, each for a different reason.
C15_Witness ==
    /\ \E e, f \in EventIds :
          /\ events[e].present /\ ~events[f].present
          /\ eventDocs[f].st = "failed" /\ eventDocs[f].error = "InvalidAgenda"
          /\ ~eventDocs[e].isNew /\ eventDocs[e].error = "InvalidTimeValue"
    /\ \E b, c \in BookingIds :
          /\ bookings[b].present /\ bookingDocs[b].error = "ok"
          /\ bookingDocs[c].st = "failed" /\ bookingDocs[c].error = "DuplicateKey"

\* ---- derived fields
SlugAlphabet ==
    {LowerSeq[i] : i \in DOMAIN LowerSeq} \cup {DigitSeq[i] : i \in DOMAIN DigitSeq}
        \cup {"-"}

\* C16: the slug of every persisted event (its title was accepted by
\* validation) is made of a-z, 0-9 and '-' only, and neither starts nor
\* ends with '-'.
C16_SlugWellFormed ==
    \A e \in EventIds : events[e].present =>
        LET s == events[e].slug IN
        /\ s # Undef
        /\ \A i \in 1..Len(s) : s[i] \in SlugAlphabet
        /\ Len(s) > 0 => (s[1] # "-" /\ s[Len(s)] # "-")

\* A zero-padded time of day: two digits, a colon, two digits, 00:00..23:59.
CanonicalTime(s) ==
    /\ Len(s) = 5 /\ s[3] = ":"
    /\ \/ s[1] \in {"0", "1"} /\ s[2] \in Digits
       \/ s[1] = "2" /\ s[2] \in {"0", "1", "2", "3"}
    /\ s[4] \in {"0", "1", "2", "3", "4", "5"} /\ s[5] \in Digits

\* C17: in every reachable state the time of every persisted event is a
\* zero-padded HH:MM with hour 0..23 and minute 0..59, whatever creations
\* and edits were saved.
C17_StoredTimeCanonical ==
    \A e \in EventIds : events[e].present => CanonicalTime(events[e].time)

\* A persisted event was assigned the time 9:05 and saved again: the hook
\* has normalized the time and the write that replaces 14:30 is due.
C17_Witness ==
    /\ events[1].present /\ events[1].time = <<"1", "4", ":", "3", "0">>
    /\ ~eventDocs[1].isNew /\ eventDocs[1].modTime
    /\ eventDocs[1].st = "saving"
    /\ eventDocs[1].time = <<"0", "9", ":", "0", "5">>

\* Event e is saved in this step while new or with its time modified.
TimeDue(e) ==
    /\ eventDocs[e].st = "ready" /\ eventDocs'[e] # eventDocs[e]
    /\ eventDocs'[e].st = "saving" \/ eventDocs'[e].error # "none"
    /\ eventDocs[e].isNew \/ eventDocs[e].modTime

\* H:MM or HH:MM with hour 0..23 and minute 0..59, and its zero-padded form.
PadHour(s) == IF Len(s) = 4 THEN <<"0">> \o s ELSE s
ClockInRange(s) == s \in ClockTimes /\ CanonicalTime(PadHour(s))

\* C18: a save whose time is H:MM or HH:MM with hour 0..23 and minute 0..59
\* is never rejected for its time and, when it proceeds to the write, stores
\* the same hour and minute zero-padded (9:05 becomes 09:05); a time that
\* is already zero-padded is stored as it is.
C18_NormalizedTimeStored ==
    [][ \A e \in EventIds :
          /\ (TimeDue(e) /\ ClockInRange(eventDocs[e].time)) =>
                /\ eventDocs'[e].error \notin
                       {"TimeRequired", "InvalidTimeFormat", "InvalidTimeValue"}
                /\ eventDocs'[e].st = "saving" =>
                       eventDocs'[e].time = PadHour(eventDocs[e].time)
          /\ (eventDocs[e].st = "saving" /\ eventDocs'[e].error = "ok") =>
                /\ events'[e].present
                /\ events'[e].time = eventDocs[e].time
      ]_vars

\* 0:00 was stored as 00:00 by a creation.
C18_Witness ==
    /\ events[1].present /\ edits = 0
    /\ events[1].time = <<"0", "0", ":", "0", "0">>
    /\ eventDocs[1].error = "ok"

\* One or two digits, a colon, exactly two digits.
HasClockForm(s) ==
    \/ /\ Len(s) = 4 /\ s[2] = ":"
       /\ s[1] \in Digits /\ s[3] \in Digits /\ s[4] \in Digits
    \/ /\ Len(s) = 5 /\ s[3] = ":"
       /\ s[1] \in Digits /\ s[2] \in Digits /\ s[4] \in Digits /\ s[5] \in Digits

\* The errors of the schema's validators, raised before the hook runs.
SchemaErrors ==
    {"TitleRequired", "TitleTooLong", "SlugRequired", "DescriptionRequired",
     "TimeRequired", "InvalidAgenda", "InvalidTags"}

\* C19: a save whose time string does not have the form of one or two
\* digits, a colon and two digits fails with the invalid-format error, and
\* one whose time has the form but hour > 23 or minute > 59 fails with the
\* invalid-value error.
C19_TimeErrors ==
    [][ \A e \in EventIds : (TimeDue(e) /\ eventDocs[e].time # Undef) =>
          LET t == eventDocs[e].time IN
          /\ ~HasClockForm(t) =>
                (eventDocs'[e].st # "saving" /\ eventDocs'[e].error = "InvalidTimeFormat")
          /\ (HasClockForm(t) /\ ~ClockInRange(t)) =>
                (eventDocs'[e].st # "saving" /\ eventDocs'[e].error = "InvalidTimeValue")
      ]_vars

\* C19, amended: the same for a non-empty time string on a document that
\* the schema's validators accept; an empty time is rejected as missing,
\* never as a time of the right form, and a malformed time is never
\* reported as an invalid value.
C19_TimeErrorsAfterValidation ==
    [][ \A e \in EventIds : (TimeDue(e) /\ eventDocs[e].time # Undef) =>
          LET t == eventDocs[e].time IN
          /\ ~HasClockForm(t) =>
                /\ eventDocs'[e].st # "saving"
                /\ eventDocs'[e].error # "InvalidTimeValue"
                /\ eventDocs'[e].error \in SchemaErrors \cup {"InvalidTimeFormat"}
                /\ t # <<>> => eventDocs'[e].error # "TimeRequired"
                /\ t = <<>> => eventDocs'[e].error # "InvalidTimeFormat"
          /\ (HasClockForm(t) /\ ~ClockInRange(t)) =>
                /\ eventDocs'[e].st # "saving"
                /\ eventDocs'[e].error \in
                       (SchemaErrors \ {"TimeRequired"}) \cup {"InvalidTimeValue"}
      ]_vars

\* A persisted event was assigned the malformed time 14:5 and its save was
\* rejected by the hook with the invalid-format error.
C19_Witness ==
    /\ events[1].present /\ ~eventDocs[1].isNew
    /\ eventDocs[1].st = "ready" /\ eventDocs[1].error = "InvalidTimeFormat"
    /\ eventDocs[1].time = <<"1", "4", ":", "5">>

\* The in-memory document of persisted event e has neither its title nor
\* its time modified.
OnlyOtherFieldsEdited(e) ==
    /\ events[e].present /\ ~eventDocs[e].isNew
    /\ ~eventDocs[e].modTitle /\ ~eventDocs[e].modTime

\* C20: saving a persisted event of which neither the title nor the time
\* was modified derives no slug and validates no time: the hook leaves the
\* document's slug and time as they are stored and raises no time error,
\* and the write leaves the stored slug and time unchanged.
C20_UnrelatedEditKeepsDerived ==
    [][ \A e \in EventIds : OnlyOtherFieldsEdited(e) =>
          /\ eventDocs[e].slug = events[e].slug /\ eventDocs[e].time = events[e].time
          /\ eventDocs'[e] # eventDocs[e] /\ eventDocs[e].st = "ready"
                /\ (eventDocs'[e].st = "saving"
                        \/ eventDocs'[e].error \notin {"none", "ok"}) =>
                /\ eventDocs'[e].st = "saving"
                /\ eventDocs'[e].slug = events[e].slug
                /\ eventDocs'[e].time = events[e].time
          /\ eventDocs[e].st = "saving" /\ eventDocs'[e].st # "saving" =>
                /\ eventDocs'[e].error = "ok"
                /\ events'[e].slug = events[e].slug
                /\ events'[e].time = events[e].time
                /\ events'[e].description = eventDocs[e].description
      ]_vars

\* The description of a persisted event was edited and the save has passed
\* the hook a millisecond after the slug was derived: the document still
\* carries the stored slug and time, and the write is due.
C20_Witness ==
    /\ eventModel = "stamped" /\ now = ClockStart + 1
    /\ events[1].present /\ ~eventDocs[1].isNew /\ eventDocs[1].st = "saving"
    /\ events[1].description = <<"d">> /\ eventDocs[1].description = <<"u">>
    /\ eventDocs[1].slug = events[1].slug
    /\ events[1].slug = <<"c", "-">> \o Base36(ClockStart)

\* The slugified form of the titles the event specifications use.
SlugStem(title) ==
    CASE title = <<"A", "b">> -> <<"a", "b">>
      [] title = <<"c">> -> <<"c">>
      [] title = <<"-", "E", "-">> -> <<"e">>
      [] title = <<"E", "@", "2", " ", "&">> -> <<"e", "-", "2">>
      [] title = <<"@", " ", "!">> -> <<>>
      [] OTHER -> Undef

\* slug is the slug derived from title at some moment of the clock.
SlugOf(title, slug) ==
    IF eventModel = "stamped"
      THEN \E t \in ClockStart..(ClockStart + MaxTicks) :
               slug = SlugStem(title) \o <<"-">> \o Base36(t)
      ELSE slug = SlugStem(title)

\* C21: the save of a persisted event whose title was changed replaces the
\* slug by the one derived from the new title at that moment, and the slug
\* of every persisted event is the one derived from its stored title.
C21_SlugFollowsTitle ==
    /\ [](\A e \in EventIds :
              events[e].present => SlugOf(events[e].title, events[e].slug))
    /\ [][ \A e \in EventIds :
              (/\ ~eventDocs[e].isNew /\ eventDocs[e].modTitle
               /\ eventDocs[e].st = "ready" /\ eventDocs'[e].st = "saving") =>
                 /\ SlugOf(eventDocs[e].title, eventDocs'[e].slug)
                 /\ eventModel = "stamped" =>
                       eventDocs'[e].slug =
                           SlugStem(eventDocs[e].title) \o <<"-">> \o Base36(now)
          ]_vars

\* A persisted event titled "c" was retitled "Ab" and saved: the hook has
\* derived the new slug and the write that replaces the old one is due.
C21_Witness ==
    /\ events[1].present /\ events[1].title = <<"c">>
    /\ ~eventDocs[1].isNew /\ eventDocs[1].modTitle
    /\ eventDocs[1].st = "saving" /\ eventDocs[1].title = <<"A", "b">>
    /\ eventDocs[1].slug # events[1].slug
    /\ SlugOf(<<"A", "b">>, eventDocs[1].slug)

\* ---- references
\* Booking b, persisted and with its eventId unmodified, is saved in this step.
SavedWithoutNewReference(b) ==
    /\ bookings[b].present /\ ~bookingDocs[b].isNew /\ ~bookingDocs[b].modEventId
    /\ bookingDocs[b].st = "ready" /\ bookingDocs'[b] # bookingDocs[b]
    /\ bookingDocs'[b].st = "saving" \/ bookingDocs'[b].error \notin {"none", "ok"}

\* C22: the save of a persisted booking whose eventId was not modified does
\* no event lookup: it is never rejected for a missing referenced event,
\* also when that event has been deleted; only the email validators can
\* reject it before the write.
C22_NoLookupOnOtherEdits ==
    [][ \A b \in BookingIds : SavedWithoutNewReference(b) =>
          /\ bookingDocs'[b].error # "ReferencedEventMissing"
          /\ bookingDocs'[b].st # "saving" =>
                bookingDocs'[b].error \in {"EmailRequired", "InvalidEmailFormat"}
      ]_vars

\* The event of a persisted booking was deleted, the booking's email was
\* edited, and its save has passed the hook: the write is due.
C22_Witness ==
    \E b \in BookingIds :
        /\ bookings[b].present /\ ~events[bookings[b].eventId].present
        /\ ~bookingDocs[b].isNew /\ bookingDocs[b].modEmail
        /\ ~bookingDocs[b].modEventId
        /\ bookingDocs[b].eventId = bookings[b].eventId
        /\ bookingDocs[b].st = "saving"

\* C23: a step that deletes an event leaves every booking in the store as it
\* was, the bookings that reference the deleted event included.
C23_NoCascade ==
    [][ (\E e \in EventIds : events[e].present /\ ~events'[e].present) =>
            bookings' = bookings ]_vars

\* A persisted booking references an event that is no longer in the store.
C23_Witness ==
    \E b \in BookingIds :
        /\ bookings[b].present /\ bookingDocs[b].st = "ready"
        /\ ~events[bookings[b].eventId].present
        /\ eventDocs[bookings[b].eventId].error = "ok"

\* ---- booking emails
\* Neither an upper-case letter nor a space at either end.
NormalForm(s) ==
    /\ \A i \in 1..Len(s) : \A j \in DOMAIN UpperSeq : s[i] # UpperSeq[j]
    /\ Len(s) > 0 => (s[1] # " " /\ s[Len(s)] # " ")

\* C24: the email of a booking is trimmed and lower-cased when the document
\* is constructed, before validation, storage and the unique index see it:
\* the test email written in upper case or with surrounding spaces becomes
\* the test email, and the write of a new booking whose event and
\* normalized email are those of a persisted booking fails with the
\* duplicate-key error and stores nothing.
C24_EmailNormalizedBeforeUse ==
    /\ [](\A b \in BookingIds :
              /\ bookingDocs[b].email # Undef => NormalForm(bookingDocs[b].email)
              /\ bookings[b].present => NormalForm(bookings[b].email))
    /\ [][ \A b \in BookingIds :
              /\ (bookingDocs[b].st = "none" /\ bookingDocs'[b].st # "none") =>
                    \A n \in EmailVariants \cup {TestEmail} :
                    \A e \in EventIds : \A s \in SlugsFor(e) :
                        BookingNew(b, e, n, s) => bookingDocs'[b].email = TestEmail
              /\ (/\ bookingDocs[b].st = "saving" /\ bookingDocs[b].isNew
                  /\ bookingDocs'[b].st # "saving"
                  /\ \E c \in BookingIds :
                        /\ c # b /\ bookings[c].present
                        /\ bookings[c].eventId = bookingDocs[b].eventId
                        /\ bookings[c].email = bookingDocs[b].email) =>
                    /\ bookingDocs'[b].error = "DuplicateKey"
                    /\ bookings' = bookings
          ]_vars

\* The first booking is stored with the test email; the second, constructed
\* from a variant of it in upper case or with surrounding spaces, carries
\* the same email and was refused as a duplicate.
C24_Witness ==
    /\ bookings[1].present /\ bookings[1].email = TestEmail
    /\ bookingDocs[2].st = "failed" /\ bookingDocs[2].error = "DuplicateKey"
    /\ bookingDocs[2].email = TestEmail
    /\ bookingDocs[2].eventId = bookings[1].eventId
    /\ ~bookings[2].present

\* Exactly one '@' after a non-empty local part without whitespace, and a
\* domain that contains a '.' and does not end with one.
WellFormedEmail(s) ==
    /\ Cardinality({i \in 1..Len(s) : s[i] = "@"}) = 1
    /\ LET at == CHOOSE i \in 1..Len(s) : s[i] = "@" IN
          /\ at > 1
          /\ \A i \in 1..(at - 1) : s[i] # " "
          /\ \E i \in (at + 1)..Len(s) : s[i] = "."
          /\ s[Len(s)] # "."

\* The save of booking b up to its write happens in this step.
BookingSaved(b) ==
    /\ bookingDocs[b].st = "ready" /\ bookingDocs'[b] # bookingDocs[b]
    /\ bookingDocs'[b].st = "saving" \/ bookingDocs'[b].error \notin {"none", "ok"}

\* C25: a booking's save passes the email validator only if the normalized
\* email has a non-empty local part without whitespace or '@', exactly one
\* '@', and a domain with a '.' followed by a non-empty final label; the
\* malformed emails of the tests are rejected with the invalid-format
\* error and the well-formed ones are accepted.
C25_EmailAcceptedOnlyIfWellFormed ==
    [][ \A b \in BookingIds : BookingSaved(b) =>
          LET m == bookingDocs[b].email IN
          /\ bookingDocs'[b].st = "saving" => (m # Undef /\ WellFormedEmail(m))
          /\ m \in RejectedEmails =>
                (bookingDocs'[b].st # "saving"
                    /\ bookingDocs'[b].error = "InvalidEmailFormat")
          /\ m \in AcceptedEmails => bookingDocs'[b].error # "InvalidEmailFormat"
      ]_vars

\* C26: the save of a booking whose email has a local part that starts with
\* a dot or ends with a dot is rejected with the invalid-format error before
\* the write.
C26_DotAtEdgeOfLocalPartRejected ==
    [][ \A b \in BookingIds :
          (/\ BookingSaved(b)
           /\ bookingDocs[b].email \in
                  { <<".", "u", "@", "e", ".", "c">>, <<"u", ".", "@", "e", ".", "c">> }) =>
              /\ bookingDocs'[b].st # "saving"
              /\ bookingDocs'[b].error = "InvalidEmailFormat"
      ]_vars

\* C27: the save of a booking without an email fails with the missing-field
\* error, the save of one whose email is present but does not match the
\* pattern (the empty string, the malformed emails of the tests) fails with
\* the invalid-format error, and neither is written.
C27_EmailErrors ==
    [][ \A b \in BookingIds : BookingSaved(b) =>
          LET m == bookingDocs[b].email IN
          /\ m = Undef =>
                (bookingDocs'[b].st # "saving" /\ bookingDocs'[b].error = "EmailRequired")
          /\ (m = <<>> \/ m \in RejectedEmails) =>
                (bookingDocs'[b].st # "saving"
                    /\ bookingDocs'[b].error = "InvalidEmailFormat")
      ]_vars

\* C27, amended: an email that is absent, or empty once trimmed, fails with
\* the missing-field error; a non-empty email that does not match the
\* pattern fails with the invalid-format error; a booking whose save failed
\* in either way is not written.
C27_EmailErrorsNonEmpty ==
    /\ [](\A b \in BookingIds :
              (bookingDocs[b].isNew /\ bookingDocs[b].error \in
                    {"EmailRequired", "InvalidEmailFormat"}) =>
                  (bookingDocs[b].st # "saving" /\ ~bookings[b].present))
    /\ [][ \A b \in BookingIds : BookingSaved(b) =>
              LET m == bookingDocs[b].email IN
              /\ (m = Undef \/ m = <<>>) =>
                    (bookingDocs'[b].st # "saving"
                        /\ bookingDocs'[b].error = "EmailRequired")
              /\ m \in RejectedEmails =>
                    (bookingDocs'[b].st # "saving"
                        /\ bookingDocs'[b].error = "InvalidEmailFormat")
              /\ bookingDocs'[b].error = "InvalidEmailFormat" =>
                    (m # Undef /\ m # <<>> /\ ~WellFormedEmail(m))
          ]_vars

\* One booking without an email and one with the email 'u@' were saved and
\* refused, the first as missing a field, the second for its format.
C27_Witness ==
    /\ bookingDocs[1].email = Undef /\ bookingDocs[1].error = "EmailRequired"
    /\ bookingDocs[2].email = <<"u", "@">>
    /\ bookingDocs[2].error = "InvalidEmailFormat"
    /\ ~bookings[1].present /\ ~bookings[2].present

\* ---- agenda and tags
\* A non-empty list without an empty or whitespace-only entry.
NoBlankEntries(v) ==
    /\ Len(v) > 0
    /\ \A i \in 1..Len(v) : \E j \in 1..Len(v[i]) : v[i][j] # " "

\* C28: the agenda and the tags of every persisted event are non-empty and
\* hold no empty or whitespace-only entry, and a save with an empty list or
\* a blank entry does not reach the write.
C28_ListsNeverBlank ==
    \A e \in EventIds :
        /\ events[e].present =>
              (NoBlankEntries(events[e].agenda) /\ NoBlankEntries(events[e].tags))
        /\ eventDocs[e].st = "saving" =>
              (NoBlankEntries(eventDocs[e].agenda) /\ NoBlankEntries(eventDocs[e].tags))

\* ---- timestamps
\* The write of a save of persisted event e succeeds in this step.
ResaveLands(e) ==
    /\ eventDocs[e].st = "saving" /\ ~eventDocs[e].isNew
    /\ eventDocs'[e].error = "ok"

C30_EventExistsAtWrite ==
    [][ \A b \in BookingIds :
          (/\ bookingDocs[b].st = "saving" /\ bookingDocs[b].isNew
           /\ ~bookings[b].present /\ bookings'[b].present) =>
              events[bookingDocs[b].eventId].present ]_vars

====
